---- MODULE Spec2Model ----
(***************************************************************************)
(* A model of the plant monitor (src/app.py): the shared status record      *)
(* system_state, the serial handle ser, the three background threads        *)
(* (read_serial_thread, update_weather_thread, auto_watering_scheduler),    *)
(* the Flask request handlers and send_command_to_arduino.                  *)
(*                                                                         *)
(* Threads interleave between statements: a step of a thread reads or      *)
(* writes the shared globals (system_state, ser) once, and each thread's    *)
(* position is a program counter.  The reader stores a reading field by     *)
(* field (app.py:114-117 and 136-146), one step for each store.             *)
(***************************************************************************)
EXTENDS Integers, Sequences, FiniteSets, TLC

\* ------------------------------------------------------------------------
\* 1. CONFIGURATION (app.py, section 1)
\* ------------------------------------------------------------------------
MOISTURE_THRESHOLD == 500
DRY_VALUE_MAX == 650
WET_VALUE_MIN == 300
max_retries == 5
PLACEHOLDER_KEY == "YOUR_OPENWEATHERMAP_API_KEY"

\* ------------------------------------------------------------------------
\* Bounds of the model
\* ------------------------------------------------------------------------
\* raw readings of the pure-function specifications range over
\* WET_VALUE_MIN - RawMargin .. DRY_VALUE_MAX + RawMargin
RawMargin == 40
\* the clock of datetime.now() takes the values 0..MaxClock and wraps, as the
\* time of day "%H:%M:%S" does
MaxClock == 1
\* number of commands the serial wire log remembers
MaxWire == 1
\* POST /toggle_auto requests of a counted run
MaxRequests == 2
\* concurrent HTTP handler threads
MaxClients == 2
\* weather condition ids of the classification specification: 0..MaxWeatherId
MaxWeatherId == 999

\* ------------------------------------------------------------------------
\* IEEE-754 binary64 arithmetic.  Python evaluates
\*     ((clamped_value - WET_VALUE_MIN) / range_span) * 100
\* in double precision, each operation rounded to nearest, ties to even, and
\* int() then truncates.  The rounding is visible: (203 / 350) * 100 is
\* 57.99999999999999, not 58.
\* A positive double is [hi, limbs, exp]: the 52 fraction bits of the
\* mantissa are four limbs of LimbBits bits, most significant first, and the
\* value is (hi + limbs[1]/Base + ... + limbs[4]/Base^4) * 2^exp.
\* ------------------------------------------------------------------------
LimbBits == 13
NLimbs == 4

RECURSIVE Pow2(_)
Pow2(n) ==
    IF n = 0 THEN 1 ELSE 2 * Pow2(n - 1)

Base == Pow2(LimbBits)

\* number of bits of n: 0 for 0, 1 for 1, 2 for 2..3, ...
RECURSIVE BitLen(_)
BitLen(n) ==
    IF n = 0 THEN 0 ELSE 1 + BitLen(n \div 2)

\* smallest t with k * 2^t >= d, for 0 < k
RECURSIVE ShiftTo(_, _)
ShiftTo(k, d) ==
    IF k >= d THEN 0 ELSE 1 + ShiftTo(2 * k, d)

\* the next n limbs of the quotient r / d (0 <= r < d), and the remainder
RECURSIVE DivLimbs(_, _, _)
DivLimbs(r, d, n) ==
    IF n = 0 THEN <<<<>>, r>>
    ELSE LET rest == DivLimbs((r * Base) % d, d, n - 1)
         IN  <<<<(r * Base) \div d>> \o rest[1], rest[2]>>

\* [hi, limbs] plus u units of the last limb, carries propagated into hi
RECURSIVE AddUlp(_, _, _)
AddUlp(hi, limbs, u) ==
    IF limbs = <<>> THEN <<hi + u, <<>>>>
    ELSE LET n    == Len(limbs)
             v    == limbs[n] + u
             rest == AddUlp(hi, SubSeq(limbs, 1, n - 1), v \div Base)
         IN  <<rest[1], rest[2] \o <<v % Base>>>>

\* k / d correctly rounded, for integers 0 < k < 2 * d
FloatDiv(k, d) ==
    LET t   == ShiftTo(k, d)
        q   == DivLimbs(k * Pow2(t) - d, d, NLimbs)
        r   == q[2]
        up  == 2 * r > d \/ (2 * r = d /\ q[1][NLimbs] % 2 = 1)
        s   == AddUlp(1, q[1], IF up THEN 1 ELSE 0)
    IN  [hi |-> s[1], limbs |-> s[2], exp |-> 0 - t]

\* [hi, limbs] * c + carry, for an integer 0 < c < Base
RECURSIVE MulLimbs(_, _, _, _)
MulLimbs(hi, limbs, c, carry) ==
    IF limbs = <<>> THEN <<hi * c + carry, <<>>>>
    ELSE LET n    == Len(limbs)
             v    == limbs[n] * c + carry
             rest == MulLimbs(hi, SubSeq(limbs, 1, n - 1), c, v \div Base)
         IN  <<rest[1], rest[2] \o <<v % Base>>>>

\* x * c correctly rounded, for a double x > 0 and an integer 0 < c < Base / 2:
\* the exact product has BitLen(hi) - 1 bits more than the mantissa holds, and
\* they are the low bits of the last limb
FloatMul(x, c) ==
    LET p    == MulLimbs(x.hi, x.limbs, c, 0)
        s    == BitLen(p[1]) - 1
        last == p[2][NLimbs]
        drop == last % Pow2(s)
        half == Pow2(s) \div 2
        up   == s > 0 /\ (drop > half
                          \/ (drop = half /\ (last \div Pow2(s)) % 2 = 1))
        kept == [p[2] EXCEPT ![NLimbs] = last - drop]
        r    == AddUlp(p[1], kept, IF up THEN Pow2(s) ELSE 0)
    IN  [hi |-> r[1], limbs |-> r[2], exp |-> x.exp]

\* int(x) for a double x > 0 with exp <= 0: truncation
FloatToInt(x) == x.hi \div Pow2(0 - x.exp)

\* int((k / d) * c), as Python's float arithmetic gives it, 0 <= k < 2 * d
ScaledInt(k, d, c) ==
    IF k = 0 THEN 0 ELSE FloatToInt(FloatMul(FloatDiv(k, d), c))

Max(a, b) == IF a >= b THEN a ELSE b
Min(a, b) == IF a <= b THEN a ELSE b

\* app.py:143-146, the relative moisture percentage of a raw reading
range_span == DRY_VALUE_MAX - WET_VALUE_MIN
clamped_value(moisture_raw) == Max(WET_VALUE_MIN, Min(DRY_VALUE_MAX, moisture_raw))
moisture_pct(moisture_raw) ==
    100 - ScaledInt(clamped_value(moisture_raw) - WET_VALUE_MIN, range_span, 100)
\* faults: the percentage not inverted; the clamps left out
MoisturePercentNotInverted(moisture_raw) ==
    Max(0, Min(100, 100 - moisture_pct(moisture_raw)))
MoisturePercentNoClamp(moisture_raw) ==
    100 - ((moisture_raw - WET_VALUE_MIN) * 100) \div range_span
MoisturePercent(moisture_raw) == Max(0, Min(100, moisture_pct(moisture_raw)))

\* app.py:138, Fahrenheit from Celsius.  Temperatures are held in tenths of
\* a degree; the readings of the model are multiples of 2.5 degrees, for which
\* (temp_c * 9/5) + 32 is exact in double precision too.
Fahrenheit(temp_c) == (temp_c * 9) \div 5 + 320

\* ------------------------------------------------------------------------
\* Text: datetime.now().strftime(fmt), and the lines of the serial protocol
\* ------------------------------------------------------------------------
NA == [text |-> "N/A"]
strftime(t, fmt) == [fmt |-> fmt, time |-> t]
FMT_UPDATE == "%H:%M:%S"
FMT_AUTO == "%H:%M:%S - AUTO"
FMT_MANUAL == "%H:%M:%S - MANUAL"

\* A field of a line is a token: an integer literal ("600"), a decimal literal
\* ("22.5", val in tenths) or a word that is no number ("ab").
IntTok(n) == [kind |-> "int", val |-> n]
DecTok(tenths) == [kind |-> "dec", val |-> tenths]
WordTok == [kind |-> "word", val |-> 0]

\* int(s): only an integer literal parses
IntParses(tok) == tok.kind = "int"
int(tok) == tok.val
\* float(s): integer and decimal literals parse; the value in tenths
FloatParses(tok) == tok.kind \in {"int", "dec"}
float(tok) == IF tok.kind = "int" THEN tok.val * 10 ELSE tok.val

\* What one poll of the serial port can deliver: nothing waiting, bytes that
\* are no UTF-8, or a line, given as its fields line.split(',') (the empty
\* line has no field text at all: <<>>).
NoData == [kind |-> "none"]
Garbage == [kind |-> "garbage"]
Line(parts) == [kind |-> "line", parts |-> parts]

\* ------------------------------------------------------------------------
\* 2. GLOBAL STATE
\* ------------------------------------------------------------------------
VARIABLES
    system_state,   \* app.py:58-70, the shared status record
    ser,            \* app.py:73, the serial connection object, or None
    API_KEY,        \* app.py:32-44, from the command line or the placeholder
    device,         \* environment: the Arduino is plugged in and answering
    now,            \* environment: the time of day datetime.now() returns
    wire,           \* environment: the last commands written to the serial line
    reader,         \* read_serial_thread: position and locals
    weather,        \* update_weather_thread: position and locals
    sched,          \* auto_watering_scheduler: position and locals
    http,           \* the Flask request handler threads: position and locals
    toggles         \* history: POST /toggle_auto requests received (counted runs)

vars == <<system_state, ser, API_KEY, device, now, wire, reader, weather, sched,
          http, toggles>>

None == [none |-> TRUE]
Serial(port_path) == [port |-> port_path, is_open |-> TRUE]

\* ------------------------------------------------------------------------
\* Environment
\* ------------------------------------------------------------------------
\* the device is unplugged, or plugged back in
Plug ==
    /\ device' = ~device
    /\ UNCHANGED <<system_state, ser, API_KEY, now, wire, reader, weather, sched,
                   http, toggles>>

\* time passes
Tick ==
    /\ now' = (now + 1) % (MaxClock + 1)
    /\ UNCHANGED <<system_state, ser, API_KEY, device, wire, reader, weather,
                   sched, http, toggles>>

\* the serial line keeps the last MaxWire commands written to it
Written(w, bytes) ==
    LET all == Append(w, bytes)
    IN  IF Len(all) > MaxWire THEN SubSeq(all, 2, Len(all)) ELSE all

\* ------------------------------------------------------------------------
\* 3. SERIAL COMMUNICATION THREAD
\* ------------------------------------------------------------------------
\* serial.tools.list_ports.comports(): the machine's own port, and the
\* Arduino's while it is plugged in
BuiltinPort == [description |-> "n/a", device |-> "/dev/ttyS0"]
ArduinoPort == [description |-> "Arduino Uno", device |-> "/dev/ttyACM0"]
comports == IF device THEN <<BuiltinPort, ArduinoPort>> ELSE <<BuiltinPort>>

\* the texts of the model that contain 'Arduino', 'USB Serial', 'ACM'
HasArduino(s) == s \in {"Arduino Uno"}
HasUSBSerial(s) == s \in {"USB Serial Device"}
HasACM(s) == s \in {"/dev/ttyACM0"}

\* app.py:77-88
RECURSIVE find_arduino_port(_)
find_arduino_port(ports) ==
    IF ports = <<>> THEN "None"
    ELSE LET port == Head(ports)
         IN  IF HasArduino(port.description) \/ HasUSBSerial(port.description)
                \/ HasACM(port.device)
             THEN port.device
             ELSE find_arduino_port(Tail(ports))

\* moisture_raw, temp_c and humidity are the locals of app.py:131-133
ReaderIdle ==
    [pc |-> "scan", port_path |-> "None", e |-> "none", outcome |-> "none",
     moisture_raw |-> 0, temp_c |-> 0, humidity |-> 0]

\* app.py:96-98, 111: while ser is None: port_path = find_arduino_port()
ReaderScan ==
    /\ reader.pc = "scan"
    /\ LET port_path == find_arduino_port(comports)
       IN  reader' = [reader EXCEPT !.port_path = port_path,
                                    !.pc = IF port_path # "None" THEN "open"
                                           ELSE "simulate"]
    /\ UNCHANGED <<system_state, ser, API_KEY, device, now, wire, weather, sched,
                   http, toggles>>

\* app.py:100, 106-108: ser = serial.Serial(...) opens the port, or raises
\* SerialException (the device is gone again, or the port is busy)
ReaderOpen ==
    /\ reader.pc = "open"
    /\ \E busy \in BOOLEAN :
         IF device /\ ~busy
         THEN /\ ser' = Serial(reader.port_path)
              /\ reader' = [reader EXCEPT !.pc = "settle"]
         ELSE /\ ser' = None
              /\ reader' = [reader EXCEPT !.pc = "retry_open",
                                          !.e = "SerialException"]
    /\ UNCHANGED <<system_state, API_KEY, device, now, wire, weather, sched,
                   http, toggles>>

\* app.py:101-102: time.sleep(2); ser.flushInput()
ReaderSettle ==
    /\ reader.pc = "settle"
    /\ reader' = [reader EXCEPT !.pc = "set_connected"]
    /\ UNCHANGED <<system_state, ser, API_KEY, device, now, wire, weather, sched,
                   http, toggles>>

\* app.py:103-105: the flag is set and the scan loop is left
ReaderSetConnected ==
    /\ reader.pc = "set_connected"
    /\ system_state' = [system_state EXCEPT !.arduino_connected = TRUE]
    /\ reader' = [reader EXCEPT !.pc = "poll"]
    /\ UNCHANGED <<ser, API_KEY, device, now, wire, weather, sched, http, toggles>>

\* app.py:109-110: time.sleep(5), the flag is cleared, and the scan loop goes on
ReaderRetryOpen ==
    /\ reader.pc = "retry_open"
    /\ system_state' = [system_state EXCEPT !.arduino_connected = FALSE]
    /\ reader' = [reader EXCEPT !.pc = "scan"]
    /\ UNCHANGED <<ser, API_KEY, device, now, wire, weather, sched, http, toggles>>

\* app.py:112-117: no port found, simulated readings, stored one by one:
\* random.randint(400, 700), random.uniform(18.0, 28.0), random.uniform(30.0, 60.0)
SIM_RAW_MIN == 400
SIM_RAW_MAX == 700
SimTemps == {200}
SimHumidities == {450}

\* app.py:114
ReaderSimulate(raws) ==
    /\ reader.pc = "simulate"
    /\ \E raw \in raws :
         system_state' = [system_state EXCEPT !.moisture_raw = raw]
    /\ reader' = [reader EXCEPT !.pc = "sim_temp_c"]
    /\ UNCHANGED <<ser, API_KEY, device, now, wire, weather, sched, http, toggles>>

\* app.py:115
ReaderSimTempC ==
    /\ reader.pc = "sim_temp_c"
    /\ \E t \in SimTemps :
         system_state' = [system_state EXCEPT !.temp_c = t]
    /\ reader' = [reader EXCEPT !.pc = "sim_humidity"]
    /\ UNCHANGED <<ser, API_KEY, device, now, wire, weather, sched, http, toggles>>

\* app.py:116
ReaderSimHumidity ==
    /\ reader.pc = "sim_humidity"
    /\ \E h \in SimHumidities :
         system_state' = [system_state EXCEPT !.humidity = h]
    /\ reader' = [reader EXCEPT !.pc = "sim_last_update"]
    /\ UNCHANGED <<ser, API_KEY, device, now, wire, weather, sched, http, toggles>>

\* app.py:117
ReaderSimLastUpdate ==
    /\ reader.pc = "sim_last_update"
    /\ system_state' = [system_state EXCEPT
                           !.last_update = strftime(now, FMT_UPDATE)]
    /\ reader' = [reader EXCEPT !.pc = "retry_scan"]
    /\ UNCHANGED <<ser, API_KEY, device, now, wire, weather, sched, http, toggles>>

\* fault: the retry marks the device connected
ReaderRetryScanConnected ==
    /\ reader.pc = "retry_scan"
    /\ system_state' = [system_state EXCEPT !.arduino_connected = TRUE]
    /\ reader' = [reader EXCEPT !.pc = "scan"]
    /\ UNCHANGED <<ser, API_KEY, device, now, wire, weather, sched, http, toggles>>
\* app.py:118-119: time.sleep(10), the flag is cleared, and the scan loop goes on
ReaderRetryScan ==
    /\ reader.pc = "retry_scan"
    /\ system_state' = [system_state EXCEPT !.arduino_connected = FALSE]
    /\ reader' = [reader EXCEPT !.pc = "scan"]
    /\ UNCHANGED <<ser, API_KEY, device, now, wire, weather, sched, http, toggles>>

\* app.py:129-133: what the parse of a line comes to: "ignored" (empty, or
\* not three fields), "ValueError" (int() or float() fails), or "parsed"
ParseOutcome(parts) ==
    IF parts = <<>> \/ Len(parts) # 3 THEN "ignored"
    ELSE IF ~IntParses(parts[1]) \/ ~FloatParses(parts[2]) \/ ~FloatParses(parts[3])
         THEN "ValueError"
         ELSE "parsed"

\* app.py:123-133, 148-150, 155: one iteration of the main reading loop, up
\* to the parsed fields.  in_waiting raises when the device is gone, decode
\* raises on bytes that are no UTF-8, int() and float() raise on a field
\* that is no number; every exception is caught by `except Exception`, which
\* drops the handle first.  A parsed line leaves its three values in the
\* locals, and the stores of app.py:137-146 follow.
PollOutcome(inp) ==
    IF ser = None THEN "idle"
    ELSE IF ~device THEN "SerialException"
    ELSE IF inp.kind = "none" THEN "idle"
    ELSE IF inp.kind = "garbage" THEN "UnicodeDecodeError"
    ELSE ParseOutcome(inp.parts)

ReaderPoll(inputs) ==
    /\ reader.pc = "poll"
    /\ \E inp \in inputs :
         LET out == PollOutcome(inp)
         IN  /\ ser' = IF out \in {"idle", "ignored", "parsed"} THEN ser ELSE None
             /\ reader' =
                  IF out = "parsed"
                  THEN [reader EXCEPT !.outcome = out,
                                      !.moisture_raw = int(inp.parts[1]),
                                      !.temp_c = float(inp.parts[2]),
                                      !.humidity = float(inp.parts[3]),
                                      !.pc = "store_moisture_raw"]
                  ELSE IF out \in {"idle", "ignored"}
                       THEN [reader EXCEPT !.outcome = out]
                       ELSE [reader EXCEPT !.outcome = "error", !.e = out,
                                           !.pc = "lost"]
    /\ UNCHANGED <<system_state, API_KEY, device, now, wire, weather, sched, http,
                   toggles>>

\* app.py:136
ReaderStoreMoistureRaw ==
    /\ reader.pc = "store_moisture_raw"
    /\ system_state' = [system_state EXCEPT !.moisture_raw = reader.moisture_raw]
    /\ reader' = [reader EXCEPT !.pc = "store_temp_c"]
    /\ UNCHANGED <<ser, API_KEY, device, now, wire, weather, sched, http, toggles>>

\* app.py:137
ReaderStoreTempC ==
    /\ reader.pc = "store_temp_c"
    /\ system_state' = [system_state EXCEPT !.temp_c = reader.temp_c]
    /\ reader' = [reader EXCEPT !.pc = "store_temp_f"]
    /\ UNCHANGED <<ser, API_KEY, device, now, wire, weather, sched, http, toggles>>

\* app.py:138
ReaderStoreTempF ==
    /\ reader.pc = "store_temp_f"
    /\ system_state' = [system_state EXCEPT !.temp_f = Fahrenheit(reader.temp_c)]
    /\ reader' = [reader EXCEPT !.pc = "store_humidity"]
    /\ UNCHANGED <<ser, API_KEY, device, now, wire, weather, sched, http, toggles>>

\* app.py:139
ReaderStoreHumidity ==
    /\ reader.pc = "store_humidity"
    /\ system_state' = [system_state EXCEPT !.humidity = reader.humidity]
    /\ reader' = [reader EXCEPT !.pc = "store_last_update"]
    /\ UNCHANGED <<ser, API_KEY, device, now, wire, weather, sched, http, toggles>>

\* app.py:140
ReaderStoreLastUpdate ==
    /\ reader.pc = "store_last_update"
    /\ system_state' = [system_state EXCEPT
                           !.last_update = strftime(now, FMT_UPDATE)]
    /\ reader' = [reader EXCEPT !.pc = "store_moisture_percent"]
    /\ UNCHANGED <<ser, API_KEY, device, now, wire, weather, sched, http, toggles>>

\* app.py:143-146, then the time.sleep(1) of app.py:155
ReaderStoreMoisturePercent ==
    /\ reader.pc = "store_moisture_percent"
    /\ system_state' = [system_state EXCEPT
                           !.moisture_percent = MoisturePercent(reader.moisture_raw)]
    /\ reader' = [reader EXCEPT !.pc = "poll"]
    /\ UNCHANGED <<ser, API_KEY, device, now, wire, weather, sched, http, toggles>>

\* app.py:151-153: the flag is cleared and `break` leaves the reading loop,
\* which is the last statement of the function: the thread ends
ReaderLost ==
    /\ reader.pc = "lost"
    /\ system_state' = [system_state EXCEPT !.arduino_connected = FALSE]
    /\ reader' = [reader EXCEPT !.pc = "exited"]
    /\ UNCHANGED <<ser, API_KEY, device, now, wire, weather, sched, http, toggles>>

\* ------------------------------------------------------------------------
\* send_command_to_arduino (app.py:158-171).  The function reads the global
\* ser three times (`ser`, `ser.is_open`, `ser.write`), and the reader thread
\* may drop the handle between two of them.
\* ------------------------------------------------------------------------
\* f"{command}\n".encode('utf-8')
Encode(command) == <<command, "\n">>

\* app.py:160, `ser and ...`: is there a handle
SerTruthy == ser # None

\* app.py:160, `ser.is_open`, evaluated outside the try: on None it raises
\* AttributeError out of the function
IsOpenOutcome ==
    IF ser = None THEN "AttributeError"
    ELSE IF ser.is_open THEN "open" ELSE "closed"

\* app.py:161-168, ser.write inside the try: True, or False on any exception
WriteSucceeds == ser # None /\ device

\* ------------------------------------------------------------------------
\* 4. WEATHER & SCHEDULE LOGIC THREADS
\* ------------------------------------------------------------------------
\* What requests.get(...) and the reading of the answer can come to:
\* a RequestException (no network, a timeout, a 4xx or 5xx status), an answer
\* whose body is no JSON, an answer that is JSON of another shape (KeyError,
\* IndexError, TypeError), or a weather report with its condition id and
\* description.
\* On a body that is no JSON, response.json() raises the library's
\* JSONDecodeError: a requests.exceptions.RequestException from requests 2.27
\* on, a plain ValueError in the releases before; the installed release
\* decides which handler catches it, and error names it.
RequestFailed == [kind |-> "RequestException"]
NotJSON(error) == [kind |-> "not_json", error |-> error]
BadShape == [kind |-> "shape"]
Report(id, description) == [kind |-> "ok", id |-> id, description |-> description]

\* str.capitalize() on the descriptions of the model
Capitalize(s) ==
    CASE s = "light rain" -> "Light rain"
      [] s = "clear sky" -> "Clear sky"
      [] s = "Heavy Snow" -> "Heavy snow"
      [] OTHER -> s

\* fault: snow (6xx) is left out
RainGroupsNoSnow == {2, 3, 5}
\* app.py:202
RainGroups == {2, 3, 5, 6}
is_raining(id) == (id \div 100) \in RainGroups

\* attempts, response and delays are the history of the cycle: the HTTP
\* attempts made, what the last one came to, and the seconds of each
\* time.sleep(2 ** attempt)
WeatherIdle ==
    [pc |-> "check_key", attempt |-> 0, data |-> None, weather_desc |-> "",
     is_raining |-> FALSE, attempts |-> 0, response |-> None, delays |-> <<>>]

\* app.py:183-187, 189: the placeholder key skips the cycle
WeatherCheckKey ==
    /\ weather.pc = "check_key"
    /\ weather' = [weather EXCEPT !.attempt = 0,
                                  !.attempts = 0,
                                  !.response = None,
                                  !.delays = <<>>,
                                  !.pc = IF API_KEY = PLACEHOLDER_KEY THEN "sleep"
                                         ELSE "request"]
    /\ UNCHANGED <<system_state, ser, API_KEY, device, now, wire, reader, sched,
                   http, toggles>>

\* app.py:209, 212: the handler that catches what the attempt raised:
\* "RequestException" (retry), "Exception" (give up), or "none"
Caught(r) ==
    CASE r.kind = "RequestException" -> "RequestException"
      [] r.kind = "not_json" -> IF r.error = "RequestException"
                                THEN "RequestException" ELSE "Exception"
      [] r.kind = "shape" -> "Exception"
      [] OTHER -> "none"

\* app.py:190-202, 209-214: one attempt
WeatherRequest(responses) ==
    /\ weather.pc = "request"
    /\ \E r \in responses :
         LET w == [weather EXCEPT !.attempts = weather.attempts + 1,
                                  !.response = r]
         IN  weather' =
                IF Caught(r) = "RequestException" THEN [w EXCEPT !.pc = "backoff"]
                ELSE IF Caught(r) = "Exception"
                     THEN [w EXCEPT !.pc = "sleep",
                                    !.data = IF r.kind = "shape" THEN r
                                             ELSE weather.data]
                     ELSE [w EXCEPT !.pc = "set_desc",
                                    !.data = r,
                                    !.weather_desc = r.description,
                                    !.is_raining = is_raining(r.id)]
    /\ UNCHANGED <<system_state, ser, API_KEY, device, now, wire, reader, sched,
                   http, toggles>>

\* app.py:204
WeatherSetDesc ==
    /\ weather.pc = "set_desc"
    /\ system_state' = [system_state EXCEPT
                           !.weather_desc = Capitalize(weather.weather_desc)]
    /\ weather' = [weather EXCEPT !.pc = "set_rain"]
    /\ UNCHANGED <<ser, API_KEY, device, now, wire, reader, sched, http, toggles>>

\* fault: the rain flag is not stored
WeatherSetRainSkipped ==
    /\ weather.pc = "set_rain"
    /\ weather' = [weather EXCEPT !.pc = "sleep"]
    /\ UNCHANGED <<system_state, ser, API_KEY, device, now, wire, reader, sched,
                   http, toggles>>
\* app.py:205-207
WeatherSetRain ==
    /\ weather.pc = "set_rain"
    /\ system_state' = [system_state EXCEPT !.weather_rain = weather.is_raining]
    /\ weather' = [weather EXCEPT !.pc = "sleep"]
    /\ UNCHANGED <<ser, API_KEY, device, now, wire, reader, sched, http, toggles>>

\* app.py:211, 189: time.sleep(2 ** attempt), then the next attempt, if any
WeatherBackoff ==
    /\ weather.pc = "backoff"
    /\ weather' = [weather EXCEPT !.attempt = weather.attempt + 1,
                                  !.delays = Append(weather.delays,
                                                    Pow2(weather.attempt)),
                                  !.pc = IF weather.attempt + 1 < max_retries
                                         THEN "request" ELSE "sleep"]
    /\ UNCHANGED <<system_state, ser, API_KEY, device, now, wire, reader, sched,
                   http, toggles>>

\* app.py:186 / 216: time.sleep(WEATHER_API_INTERVAL_SECONDS)
WeatherSleep ==
    /\ weather.pc = "sleep"
    /\ weather' = [weather EXCEPT !.pc = "check_key"]
    /\ UNCHANGED <<system_state, ser, API_KEY, device, now, wire, reader, sched,
                   http, toggles>>

SchedIdle ==
    [pc |-> "startup", is_dry |-> FALSE, is_rain_delay |-> FALSE,
     branch |-> "none", calls |-> 0, sent |-> 0, success |-> "none",
     wrote |-> None]

\* app.py:224: time.sleep(15)
SchedStartup ==
    /\ sched.pc = "startup"
    /\ sched' = [sched EXCEPT !.pc = "check_enabled"]
    /\ UNCHANGED <<system_state, ser, API_KEY, device, now, wire, reader, weather,
                   http, toggles>>

\* app.py:227: a cycle begins; it only acts if auto-watering is enabled.
\* The locals are written before they are read in every cycle, so the model
\* starts each cycle with them cleared; calls, sent, success and wrote are the
\* history of the cycle: calls of send_command_to_arduino, commands written,
\* what the call returned, and what the cycle stored in last_water.
SchedCheckEnabled ==
    /\ sched.pc = "check_enabled"
    /\ sched' = IF system_state.auto_watering_enabled
                THEN [SchedIdle EXCEPT !.pc = "read_dry", !.branch = "enabled"]
                ELSE [SchedIdle EXCEPT !.pc = "sleep", !.branch = "disabled"]
    /\ UNCHANGED <<system_state, ser, API_KEY, device, now, wire, reader, weather,
                   http, toggles>>

\* app.py:230
SchedReadDry ==
    /\ sched.pc = "read_dry"
    /\ sched' = [sched EXCEPT
                    !.is_dry = system_state.moisture_raw > MOISTURE_THRESHOLD,
                    !.pc = "read_rain"]
    /\ UNCHANGED <<system_state, ser, API_KEY, device, now, wire, reader, weather,
                   http, toggles>>

\* app.py:233
SchedReadRain ==
    /\ sched.pc = "read_rain"
    /\ sched' = [sched EXCEPT !.is_rain_delay = system_state.weather_rain,
                              !.pc = "decide"]
    /\ UNCHANGED <<system_state, ser, API_KEY, device, now, wire, reader, weather,
                   http, toggles>>

\* fault: the rain delay is not consulted
BranchIgnoringRain(is_dry, is_rain_delay) ==
    IF is_dry THEN "water" ELSE "not_dry"
\* app.py:236, 248: which branch the cycle takes
Branch(is_dry, is_rain_delay) ==
    IF is_dry /\ ~is_rain_delay THEN "water"
    ELSE IF is_dry /\ is_rain_delay THEN "skipped"
    ELSE "not_dry"

\* app.py:236-238, 248-249
SchedDecide ==
    /\ sched.pc = "decide"
    /\ LET b == Branch(sched.is_dry, sched.is_rain_delay)
       IN  sched' = [sched EXCEPT !.branch = b,
                                  !.pc = IF b = "water" THEN "send_call" ELSE "sleep"]
    /\ UNCHANGED <<system_state, ser, API_KEY, device, now, wire, reader, weather,
                   http, toggles>>

\* app.py:241 -> 160: send_command_to_arduino("WET") is entered
SchedSendCall ==
    /\ sched.pc = "send_call"
    /\ sched' = [sched EXCEPT !.calls = sched.calls + 1,
                              !.success = IF SerTruthy THEN "none" ELSE "False",
                              !.pc = IF SerTruthy THEN "send_is_open" ELSE "sleep"]
    /\ UNCHANGED <<system_state, ser, API_KEY, device, now, wire, reader, weather,
                   http, toggles>>

\* app.py:160, ser.is_open; an AttributeError is caught nowhere and ends the
\* thread
SchedSendIsOpen ==
    /\ sched.pc = "send_is_open"
    /\ LET o == IsOpenOutcome
       IN  sched' = IF o = "open" THEN [sched EXCEPT !.pc = "send_write"]
                    ELSE IF o = "closed"
                         THEN [sched EXCEPT !.pc = "sleep", !.success = "False"]
                         ELSE [sched EXCEPT !.pc = "crashed", !.success = "raised"]
    /\ UNCHANGED <<system_state, ser, API_KEY, device, now, wire, reader, weather,
                   http, toggles>>

\* app.py:163-168, then 243
SchedSendWrite ==
    /\ sched.pc = "send_write"
    /\ IF WriteSucceeds
       THEN /\ wire' = Written(wire, Encode("WET"))
            /\ sched' = [sched EXCEPT !.pc = "record", !.sent = sched.sent + 1,
                                      !.success = "True"]
       ELSE /\ wire' = wire
            /\ sched' = [sched EXCEPT !.pc = "sleep", !.success = "False"]
    /\ UNCHANGED <<system_state, ser, API_KEY, device, now, reader, weather, http,
                   toggles>>

\* fault: the scheduler stamps as the manual route does
AutoStampAsManual(t) == strftime(t, FMT_MANUAL)
\* app.py:245
AutoStamp(t) == strftime(t, FMT_AUTO)

SchedRecord ==
    /\ sched.pc = "record"
    /\ system_state' = [system_state EXCEPT !.last_water = AutoStamp(now)]
    /\ sched' = [sched EXCEPT !.pc = "pump", !.wrote = AutoStamp(now)]
    /\ UNCHANGED <<ser, API_KEY, device, now, wire, reader, weather, http, toggles>>

\* app.py:246: time.sleep(WATERING_DURATION_SECONDS + 1)
SchedPump ==
    /\ sched.pc = "pump"
    /\ sched' = [sched EXCEPT !.pc = "sleep"]
    /\ UNCHANGED <<system_state, ser, API_KEY, device, now, wire, reader, weather,
                   http, toggles>>

\* app.py:251: time.sleep(SCHEDULER_INTERVAL_SECONDS)
SchedSleep ==
    /\ sched.pc = "sleep"
    /\ sched' = [sched EXCEPT !.pc = "check_enabled"]
    /\ UNCHANGED <<system_state, ser, API_KEY, device, now, wire, reader, weather,
                   http, toggles>>

Scheduler ==
    \/ SchedStartup \/ SchedCheckEnabled \/ SchedReadDry \/ SchedReadRain
    \/ SchedDecide \/ SchedSendCall \/ SchedSendIsOpen \/ SchedSendWrite
    \/ SchedRecord \/ SchedPump \/ SchedSleep

\* ------------------------------------------------------------------------
\* 5. FLASK APPLICATION: one handler thread per client connection
\* ------------------------------------------------------------------------
GET_INDEX == "GET /"
GET_DATA == "GET /data"
POST_WATER == "POST /water_manual"
POST_TOGGLE == "POST /toggle_auto"

MSG_ENABLED == "Automatic watering ENABLED."
MSG_DISABLED == "Automatic watering DISABLED."

HandlerIdle ==
    [pc |-> "idle", req |-> "none", start |-> FALSE, read |-> FALSE,
     message |-> "", success |-> "none", wrote |-> None, resp |-> None]

Response(status, body) == [status |-> status, body |-> body]

FirstPc(req) ==
    CASE req = GET_INDEX -> "index"
      [] req = GET_DATA -> "get_data"
      [] req = POST_WATER -> "wm_call"
      [] req = POST_TOGGLE -> "tg_read"

\* a request arrives and Flask dispatches it to the route's function; a
\* counted run receives at most MaxRequests toggle requests
Arrive(c, reqs, counted) ==
    /\ http[c].pc = "idle"
    /\ \E req \in reqs :
         /\ (counted /\ req = POST_TOGGLE) => toggles < MaxRequests
         /\ http' = [http EXCEPT ![c] =
                       [HandlerIdle EXCEPT
                           !.pc = FirstPc(req),
                           !.req = req,
                           !.start = IF req = POST_TOGGLE
                                     THEN system_state.auto_watering_enabled
                                     ELSE FALSE]]
         /\ toggles' = IF counted /\ req = POST_TOGGLE THEN toggles + 1 ELSE toggles
    /\ UNCHANGED <<system_state, ser, API_KEY, device, now, wire, reader, weather,
                   sched>>

\* fault: the route answers with a server error
RespondServerError(c, status, body) ==
    http' = [http EXCEPT ![c].pc = "done", ![c].resp = Response(500, body)]
Respond(c, status, body) ==
    http' = [http EXCEPT ![c].pc = "done", ![c].resp = Response(status, body)]

\* the same, after send_command_to_arduino has returned False or has raised
RespondFailed(c, success, status, body) ==
    http' = [http EXCEPT ![c].pc = "done", ![c].success = success,
                         ![c].resp = Response(status, body)]

\* the response has gone out to the client
Deliver(c) ==
    /\ http[c].pc = "done"
    /\ http' = [http EXCEPT ![c] = HandlerIdle]
    /\ UNCHANGED <<system_state, ser, API_KEY, device, now, wire, reader, weather,
                   sched, toggles>>

\* app.py:260-267: the dashboard, with a flashed warning while disconnected
index(c) ==
    /\ http[c].pc = "index"
    /\ Respond(c, 200, [page |-> "index.html",
                        warning |-> ~system_state.arduino_connected])
    /\ UNCHANGED <<system_state, ser, API_KEY, device, now, wire, reader, weather,
                   sched, toggles>>

\* app.py:270-273
get_data(c) ==
    /\ http[c].pc = "get_data"
    /\ Respond(c, 200, system_state)
    /\ UNCHANGED <<system_state, ser, API_KEY, device, now, wire, reader, weather,
                   sched, toggles>>

\* app.py:282 -> 160: send_command_to_arduino("WET") is entered; without a
\* handle it returns False and the route answers 500 (app.py:290-291)
WM_OK == [status |-> "success", message |-> "Manual watering initiated."]
WM_ERROR == [status |-> "error",
             message |-> "Serial connection not available. Check Arduino power."]
INTERNAL_ERROR == [status |-> "error", message |-> "Internal Server Error"]

ManualCall(c) ==
    /\ http[c].pc = "wm_call"
    /\ IF SerTruthy
       THEN http' = [http EXCEPT ![c].pc = "wm_is_open"]
       ELSE RespondFailed(c, "False", 500, WM_ERROR)
    /\ UNCHANGED <<system_state, ser, API_KEY, device, now, wire, reader, weather,
                   sched, toggles>>

\* app.py:160, ser.is_open; an AttributeError leaves the route, and Flask
\* answers an unhandled exception with 500
ManualIsOpen(c) ==
    /\ http[c].pc = "wm_is_open"
    /\ LET o == IsOpenOutcome
       IN  IF o = "open" THEN http' = [http EXCEPT ![c].pc = "wm_write"]
           ELSE IF o = "closed" THEN RespondFailed(c, "False", 500, WM_ERROR)
           ELSE RespondFailed(c, "raised", 500, INTERNAL_ERROR)
    /\ UNCHANGED <<system_state, ser, API_KEY, device, now, wire, reader, weather,
                   sched, toggles>>

\* app.py:163-168, then 284 / 290-291
ManualWrite(c) ==
    /\ http[c].pc = "wm_write"
    /\ IF WriteSucceeds
       THEN /\ wire' = Written(wire, Encode("WET"))
            /\ http' = [http EXCEPT ![c].pc = "wm_record", ![c].success = "True"]
       ELSE /\ wire' = wire
            /\ RespondFailed(c, "False", 500, WM_ERROR)
    /\ UNCHANGED <<system_state, ser, API_KEY, device, now, reader, weather,
                   sched, toggles>>

\* fault: the manual route stamps as the scheduler does
ManualStampAsAuto(t) == strftime(t, FMT_AUTO)
\* app.py:285
ManualStamp(t) == strftime(t, FMT_MANUAL)

ManualRecord(c) ==
    /\ http[c].pc = "wm_record"
    /\ system_state' = [system_state EXCEPT !.last_water = ManualStamp(now)]
    /\ http' = [http EXCEPT ![c].pc = "wm_pump", ![c].wrote = ManualStamp(now)]
    /\ UNCHANGED <<ser, API_KEY, device, now, wire, reader, weather, sched, toggles>>

\* app.py:288-289: time.sleep(WATERING_DURATION_SECONDS + 1), then 200
ManualPump(c) ==
    /\ http[c].pc = "wm_pump"
    /\ Respond(c, 200, WM_OK)
    /\ UNCHANGED <<system_state, ser, API_KEY, device, now, wire, reader, weather,
                   sched, toggles>>

\* app.py:297, the right-hand side: the flag is read
ToggleRead(c) ==
    /\ http[c].pc = "tg_read"
    /\ http' = [http EXCEPT ![c].pc = "tg_write",
                            ![c].read = system_state.auto_watering_enabled]
    /\ UNCHANGED <<system_state, ser, API_KEY, device, now, wire, reader, weather,
                   sched, toggles>>

\* app.py:297, the assignment: the negation of what was read is stored
Negated(b) == ~b

ToggleWrite(c) ==
    /\ http[c].pc = "tg_write"
    /\ system_state' = [system_state EXCEPT
                           !.auto_watering_enabled = Negated(http[c].read)]
    /\ http' = [http EXCEPT ![c].pc = "tg_message"]
    /\ UNCHANGED <<ser, API_KEY, device, now, wire, reader, weather, sched, toggles>>

\* app.py:299-302: the flag is read again for the message
ToggleMessage(c) ==
    /\ http[c].pc = "tg_message"
    /\ http' = [http EXCEPT ![c].pc = "tg_respond",
                            ![c].message = IF system_state.auto_watering_enabled
                                           THEN MSG_ENABLED ELSE MSG_DISABLED]
    /\ UNCHANGED <<system_state, ser, API_KEY, device, now, wire, reader, weather,
                   sched, toggles>>

\* app.py:305: the flag is read a third time for the 'enabled' field
ToggleRespond(c) ==
    /\ http[c].pc = "tg_respond"
    /\ Respond(c, 200, [status |-> "success", message |-> http[c].message,
                        enabled |-> system_state.auto_watering_enabled])
    /\ UNCHANGED <<system_state, ser, API_KEY, device, now, wire, reader, weather,
                   sched, toggles>>

Handler(c) ==
    \/ index(c) \/ get_data(c)
    \/ ManualCall(c) \/ ManualIsOpen(c) \/ ManualWrite(c) \/ ManualRecord(c)
    \/ ManualPump(c)
    \/ ToggleRead(c) \/ ToggleWrite(c) \/ ToggleMessage(c) \/ ToggleRespond(c)
    \/ Deliver(c)

\* ------------------------------------------------------------------------
\* 6. START: the state after the module is loaded and the threads are started
\* ------------------------------------------------------------------------
InitialState ==
    [moisture_raw |-> 0, moisture_percent |-> 0, temp_c |-> 0, temp_f |-> 0,
     humidity |-> 0, last_update |-> NA, weather_desc |-> "Fetching...",
     weather_rain |-> FALSE, last_water |-> NA, auto_watering_enabled |-> TRUE,
     arduino_connected |-> FALSE]

Clients == 1..MaxClients

InitWith(keys, plugged) ==
    /\ system_state = InitialState
    /\ ser = None
    /\ API_KEY \in keys
    /\ device \in plugged
    /\ now = 0
    /\ wire = <<>>
    /\ reader = ReaderIdle
    /\ weather = WeatherIdle
    /\ sched = SchedIdle
    /\ http = [c \in Clients |-> HandlerIdle]
    /\ toggles = 0

\* sensor lines: a dry and a wet reading, and the lines of the general
\* specification (readings below and above the calibration range, malformed
\* lines)
DryLine == Line(<<IntTok(600), DecTok(225), IntTok(40)>>)
WetLine == Line(<<IntTok(250), IntTok(20), DecTok(555)>>)
Inputs ==
    {NoData, Garbage,
     Line(<<IntTok(0 - 7), IntTok(20), DecTok(555)>>),
     Line(<<IntTok(100000), DecTok(225), IntTok(40)>>),
     Line(<<IntTok(12), WordTok, IntTok(30)>>),
     Line(<<DecTok(45), IntTok(20), IntTok(30)>>),
     Line(<<IntTok(600), IntTok(20), WordTok>>),
     Line(<<IntTok(1), IntTok(2)>>),
     Line(<<IntTok(1), IntTok(2), IntTok(3), IntTok(4)>>),
     Line(<<>>)}
SimRaws == {SIM_RAW_MIN, SIM_RAW_MAX}

Reader ==
    \/ ReaderScan \/ ReaderOpen \/ ReaderSettle \/ ReaderSetConnected
    \/ ReaderRetryOpen \/ ReaderSimulate(SimRaws)
    \/ ReaderSimTempC \/ ReaderSimHumidity \/ ReaderSimLastUpdate
    \/ ReaderRetryScan
    \/ ReaderPoll(Inputs)
    \/ ReaderStoreMoistureRaw \/ ReaderStoreTempC \/ ReaderStoreTempF
    \/ ReaderStoreHumidity \/ ReaderStoreLastUpdate \/ ReaderStoreMoisturePercent
    \/ ReaderLost

AllRequests == {GET_INDEX, GET_DATA, POST_WATER, POST_TOGGLE}

\* The threads __main__ starts, with the placeholder key: the sensor reader,
\* the watering decision loop and a handler thread of the server serving one
\* client, and the device that comes and goes.  The weather poller only
\* sleeps with this key (app.py:183-187), so it takes no step here; the
\* clock stands, so every stamp carries the same time.
Init == InitWith({PLACEHOLDER_KEY}, BOOLEAN)
Next ==
    \/ Plug
    \/ Reader
    \/ Scheduler
    \/ Arrive(1, AllRequests, FALSE) \/ Handler(1)
Spec == Init /\ [][Next]_vars

\* The sensor reader, the weather poller and the watering decision loop.
CoarseReports == {Report(500, "light rain"), Report(800, "clear sky")}
LoopInputs == {NoData, Garbage, DryLine, WetLine}
LoopReader ==
    \/ ReaderScan \/ ReaderOpen \/ ReaderSettle \/ ReaderSetConnected
    \/ ReaderRetryOpen \/ ReaderSimulate(SimRaws)
    \/ ReaderSimTempC \/ ReaderSimHumidity \/ ReaderSimLastUpdate
    \/ ReaderRetryScan
    \/ ReaderPoll(LoopInputs)
    \/ ReaderStoreMoistureRaw \/ ReaderStoreTempC \/ ReaderStoreTempF
    \/ ReaderStoreHumidity \/ ReaderStoreLastUpdate \/ ReaderStoreMoisturePercent
    \/ ReaderLost
LoopWeather ==
    \/ WeatherCheckKey \/ WeatherRequest(CoarseReports) \/ WeatherSetDesc
    \/ WeatherSetRain \/ WeatherSleep
InitLoops == InitWith({"key"}, BOOLEAN)
NextLoops == Plug \/ LoopReader \/ LoopWeather \/ Scheduler
SpecLoops == InitLoops /\ [][NextLoops]_vars

\* Two HTTP clients toggling, next to the sensor reader (with or without a
\* device) and the watering decision loop, which reads the flag; the run
\* counts its toggle requests.
ToggleRequests == {POST_TOGGLE}
ToggleHandler(c) ==
    \/ ToggleRead(c) \/ ToggleWrite(c) \/ ToggleMessage(c) \/ ToggleRespond(c)
    \/ Deliver(c)
InitToggle == InitWith({PLACEHOLDER_KEY}, BOOLEAN)
NextToggle ==
    \/ LoopReader
    \/ Scheduler
    \/ \E c \in Clients : Arrive(c, ToggleRequests, TRUE) \/ ToggleHandler(c)
SpecToggle == InitToggle /\ [][NextToggle]_vars

\* The moisture percentage as a function of the raw reading: a connected
\* reader and every well-formed line with a raw reading of RawRange.
RawRange == (WET_VALUE_MIN - RawMargin)..(DRY_VALUE_MAX + RawMargin)
PctInputs == {Line(<<IntTok(r), IntTok(20), IntTok(40)>>) : r \in RawRange}
InitPct == InitWith({PLACEHOLDER_KEY}, {TRUE})
NextPct ==
    \/ ReaderScan \/ ReaderOpen \/ ReaderSettle \/ ReaderSetConnected
    \/ ReaderRetryOpen \/ ReaderPoll(PctInputs)
    \/ ReaderStoreMoistureRaw \/ ReaderStoreTempC \/ ReaderStoreTempF
    \/ ReaderStoreHumidity \/ ReaderStoreLastUpdate \/ ReaderStoreMoisturePercent
SpecPct == InitPct /\ [][NextPct]_vars

\* The weather poller alone, with every condition id of 0..MaxWeatherId.
Description(id) == IF is_raining(id) THEN "light rain" ELSE "clear sky"
AllResponses ==
    {RequestFailed, BadShape, NotJSON("RequestException"), NotJSON("ValueError")}
        \cup {Report(id, Description(id)) : id \in 0..MaxWeatherId}
InitWeather == InitWith({PLACEHOLDER_KEY, "key"}, {FALSE})
NextWeather ==
    \/ WeatherCheckKey \/ WeatherRequest(AllResponses) \/ WeatherSetDesc
    \/ WeatherSetRain \/ WeatherBackoff \/ WeatherSleep
SpecWeather == InitWeather /\ [][NextWeather]_vars

\* The sensor reader alone with a device that comes and goes, the clock, and
\* every simulated raw reading random.randint(400, 700) can give.
AllSimRaws == SIM_RAW_MIN..SIM_RAW_MAX
InitScan == InitWith({PLACEHOLDER_KEY}, BOOLEAN)
NextScan ==
    \/ Plug \/ Tick
    \/ ReaderScan \/ ReaderOpen \/ ReaderSettle \/ ReaderSetConnected
    \/ ReaderRetryOpen \/ ReaderSimulate(AllSimRaws)
    \/ ReaderSimTempC \/ ReaderSimHumidity \/ ReaderSimLastUpdate
    \/ ReaderRetryScan
    \/ ReaderPoll(LoopInputs)
    \/ ReaderStoreMoistureRaw \/ ReaderStoreTempC \/ ReaderStoreTempF
    \/ ReaderStoreHumidity \/ ReaderStoreLastUpdate \/ ReaderStoreMoisturePercent
    \/ ReaderLost
SpecScan == InitScan /\ [][NextScan]_vars

\* The weather poller alone, cycle after cycle: the thread is always
\* runnable (its sleeps end), so its steps are taken fairly.
PollerResponses ==
    {RequestFailed, BadShape, NotJSON("RequestException"), NotJSON("ValueError")}
        \cup CoarseReports
InitPoller == InitWith({PLACEHOLDER_KEY, "key"}, {FALSE})
NextPoller ==
    \/ WeatherCheckKey \/ WeatherRequest(PollerResponses) \/ WeatherSetDesc
    \/ WeatherSetRain \/ WeatherBackoff \/ WeatherSleep
SpecPoller == InitPoller /\ [][NextPoller]_vars /\ WF_vars(NextPoller)

\* The watering paths together: a reader with the device plugged in and dry
\* readings, the watering decision loop, and one HTTP client that waters by
\* hand and toggles auto-watering.
WaterInputs == {NoData, Garbage, DryLine}
WaterRequests == {POST_WATER, POST_TOGGLE}
WaterReader ==
    \/ ReaderScan \/ ReaderOpen \/ ReaderSettle \/ ReaderSetConnected
    \/ ReaderRetryOpen \/ ReaderPoll(WaterInputs)
    \/ ReaderStoreMoistureRaw \/ ReaderStoreTempC \/ ReaderStoreTempF
    \/ ReaderStoreHumidity \/ ReaderStoreLastUpdate \/ ReaderStoreMoisturePercent
    \/ ReaderLost
WaterHandler(c) ==
    \/ ManualCall(c) \/ ManualIsOpen(c) \/ ManualWrite(c) \/ ManualRecord(c)
    \/ ManualPump(c)
    \/ ToggleRead(c) \/ ToggleWrite(c) \/ ToggleMessage(c) \/ ToggleRespond(c)
    \/ Deliver(c)
InitWater == InitWith({PLACEHOLDER_KEY}, {TRUE})
NextWater ==
    \/ WaterReader
    \/ Scheduler
    \/ Arrive(1, WaterRequests, FALSE) \/ WaterHandler(1)
SpecWater == InitWater /\ [][NextWater]_vars

\* ------------------------------------------------------------------------
\* Properties
\* ------------------------------------------------------------------------
\* the malformed lines: a field that is no number, or not three fields
Malformed ==
    {inp \in Inputs : inp.kind = "line" /\ inp.parts # <<>>
                      /\ ParseOutcome(inp.parts) # "parsed"}

\* C1: while the reader is CONNECTED, the steps by which it handles a
\* malformed sensor line (the poll that reads it and, when the parse raises,
\* the exception handler) change no field of the shared status record,
\* arduino_connected included.
C1_MalformedLineChangesNothing ==
    [][(ReaderPoll(Malformed) \/ (ReaderLost /\ reader.e = "ValueError"))
          => system_state' = system_state]_vars

\* C2: the step that ends the reader's error handling (flag cleared, handle
\* dropped) puts it back in DISCONNECTED, at the port scan.
C2_ErrorReturnsToScan ==
    [][ReaderLost => (ser' = None /\ ~system_state'.arduino_connected
                      /\ reader'.pc = "scan")]_vars

\* C3: a finished POST /water_manual whose command send returned True has
\* stored a MANUAL stamp in last_water and answers 200; one whose send
\* returned False answers 500 and has not written last_water.
C3_ManualWater ==
    \A c \in Clients :
        (http[c].pc = "done" /\ http[c].req = POST_WATER) =>
            /\ http[c].success = "True" =>
                  /\ http[c].resp.status = 200
                  /\ http[c].wrote # None
                  /\ http[c].wrote.fmt = FMT_MANUAL
            /\ http[c].success = "False" =>
                  /\ http[c].resp.status = 500
                  /\ http[c].wrote = None

C3_Witness ==
    /\ http[1].pc = "done" /\ http[1].req = POST_WATER
    /\ http[1].success = "True" /\ http[1].resp.status = 200
    /\ system_state.last_water = http[1].wrote

\* C4: in a cycle of the watering decision loop that found auto-watering
\* enabled, the soil dry and the rain flag set, no step of the loop changes
\* the shared status record or writes to the serial line, the Command Sender
\* is not called, and the cycle ends at the sleep.
C4_RainDelaySkips ==
    [][(sched' # sched) =>
          /\ sched.pc \in {"check_enabled", "read_dry", "read_rain"} =>
                (system_state' = system_state /\ wire' = wire)
          /\ (sched.pc = "decide" /\ sched.is_dry /\ sched.is_rain_delay) =>
                /\ system_state' = system_state /\ wire' = wire
                /\ sched'.pc = "sleep"
                /\ sched'.calls = 0 /\ sched'.sent = 0]_vars

C4_Witness ==
    /\ sched.pc = "sleep" /\ sched.branch = "skipped"
    /\ sched.is_dry /\ sched.is_rain_delay
    /\ system_state.moisture_raw > MOISTURE_THRESHOLD

\* the cycle of the decision loop is over (or the thread has ended in it)
\* and it took the watering branch: enabled, dry, rain flag read false
WaterCycleOver ==
    /\ sched.pc \in {"sleep", "crashed"}
    /\ sched.branch = "water"

\* C5 as claimed: every cycle with auto-watering enabled, dry soil and no rain
\* writes "WET" exactly once and stores an AUTO stamp in last_water.
C5_AlwaysWaters ==
    WaterCycleOver =>
        /\ sched.sent = 1
        /\ sched.wrote # None /\ sched.wrote.fmt = FMT_AUTO

\* C5, amended: such a cycle calls the Command Sender exactly once; if the
\* call returns True, "WET" was written exactly once and last_water holds an
\* AUTO stamp of the cycle; otherwise nothing was written and the cycle has not
\* touched last_water.
C5_WatersOnSuccess ==
    WaterCycleOver =>
        /\ sched.calls = 1
        /\ sched.success = "True" =>
              /\ sched.sent = 1
              /\ sched.wrote # None /\ sched.wrote.fmt = FMT_AUTO
        /\ sched.success # "True" =>
              /\ sched.sent = 0
              /\ sched.wrote = None

C5_Witness ==
    /\ WaterCycleOver /\ sched.pc = "sleep"
    /\ sched.success = "True" /\ sched.sent = 1
    /\ system_state.last_water = sched.wrote
    /\ wire # <<>> /\ wire[Len(wire)] = Encode("WET")

\* no handler is inside toggle_auto
NoToggleRunning ==
    \A c \in Clients : http[c].req = POST_TOGGLE => http[c].pc = "done"

\* C6: when two POST /toggle_auto requests have been received and both are
\* finished, auto_watering_enabled has its initial value again.
C6_TwoTogglesRestore ==
    (toggles = 2 /\ NoToggleRunning) =>
        system_state.auto_watering_enabled = InitialState.auto_watering_enabled

\* C7: the response of POST /toggle_auto has status 200, its 'enabled' is the
\* negation of the flag at the start of the request and is the flag as the
\* request completes, and the message says ENABLED exactly when 'enabled'.
C7_ToggleResponse ==
    [][\A c \in Clients :
          (http[c].pc = "tg_respond" /\ http'[c].pc = "done") =>
              LET r == http'[c].resp
              IN  /\ r.status = 200
                  /\ r.body.enabled = ~http[c].start
                  /\ r.body.enabled = system_state'.auto_watering_enabled
                  /\ (r.body.message = MSG_ENABLED) = r.body.enabled]_vars

\* the percentage of every raw reading of the range
PercentOf == [r \in RawRange |-> MoisturePercent(r)]

\* C8: the step that stores the percentage of a parsed line stores 100 for a
\* raw reading below WET_VALUE_MIN and 0 for one above DRY_VALUE_MAX, and
\* what it stores is at most the percentage of every smaller raw reading and
\* at least that of every larger one.
C8_PercentMonotone ==
    [][(reader.pc = "store_moisture_percent" /\ reader'.pc = "poll") =>
          LET r == system_state'.moisture_raw
              q == system_state'.moisture_percent
          IN  /\ r < WET_VALUE_MIN => q = 100
              /\ r > DRY_VALUE_MAX => q = 0
              /\ \A r2 \in RawRange :
                    /\ r2 <= r => PercentOf[r2] >= q
                    /\ r2 >= r => PercentOf[r2] <= q]_vars

C8_Witness ==
    /\ reader.pc = "poll" /\ reader.outcome = "parsed"
    /\ system_state.moisture_raw = 503
    /\ system_state.moisture_percent = 43

\* C9: moisture_percent is an integer of 0..100 in every reachable state.
C9_PercentInRange == system_state.moisture_percent \in 0..100

C9_Witness ==
    /\ reader.pc = "poll" /\ reader.outcome = "parsed"
    /\ system_state.moisture_raw > 2 * DRY_VALUE_MAX
    /\ system_state.moisture_percent = 0

\* the hundreds digit of a condition id
HundredsDigit(id) == CHOOSE d \in 0..9 : \E q \in 0..(id \div 1000), r \in 0..99 :
                        id = 1000 * q + 100 * d + r

\* C10: the step that stores the rain flag of a fetched report stores TRUE
\* exactly when the hundreds digit of the condition id is 2, 3, 5 or 6; 500
\* gives TRUE and 800 gives FALSE.
C10_RainClassification ==
    [][(weather.pc = "set_rain" /\ weather'.pc = "sleep") =>
          LET id == weather.data.id
              rain == system_state'.weather_rain
          IN  /\ rain = (HundredsDigit(id) \in {2, 3, 5, 6})
              /\ id = 500 => rain
              /\ id = 800 => ~rain]_vars

C10_Witness ==
    /\ weather.pc = "sleep" /\ weather.data # None /\ weather.data.kind = "ok"
    /\ weather.data.id = 500 /\ system_state.weather_rain

\* C11: the last store of an iteration of the sensor reader that writes
\* moisture_raw and temp_c (a parsed line or the simulated readings) leaves
\* moisture_percent the percentage of moisture_raw and temp_f the Fahrenheit
\* value of temp_c.
C11_DerivedFieldsFollow ==
    [][(reader' # reader
        /\ reader.pc \in {"store_moisture_percent", "sim_last_update"}) =>
          /\ system_state'.moisture_percent
                = MoisturePercent(system_state'.moisture_raw)
          /\ system_state'.temp_f = Fahrenheit(system_state'.temp_c)]_vars

\* the eleven fields of the shared status record (app.py:58-70)
RecordFields ==
    {"moisture_raw", "moisture_percent", "temp_c", "temp_f", "humidity",
     "last_update", "weather_desc", "weather_rain", "last_water",
     "auto_watering_enabled", "arduino_connected"}

\* C12: the step that answers GET / or GET /data answers 200 and changes no
\* field of the shared status record; the dashboard carries the connectivity
\* warning exactly while arduino_connected is false, and the body of /data
\* has the eleven fields of the record with their current values.
C12_ReadOnlyRoutes ==
    [][\A c \in Clients :
          (http[c].pc \in {"index", "get_data"} /\ http'[c].pc = "done") =>
              LET r == http'[c].resp
              IN  /\ r.status = 200
                  /\ system_state' = system_state
                  /\ http[c].req = GET_INDEX =>
                        r.body.warning = ~system_state.arduino_connected
                  /\ http[c].req = GET_DATA =>
                        /\ DOMAIN r.body = RecordFields
                        /\ Cardinality(DOMAIN r.body) = 11
                        /\ r.body = system_state]_vars

C12_Witness ==
    /\ http[1].pc = "done" /\ http[1].req = GET_INDEX
    /\ http[1].resp.status = 200 /\ http[1].resp.body.warning
    /\ ~system_state.arduino_connected
    /\ system_state.last_update # NA

\* C13: the step by which the watering decision loop writes "WET" to the
\* serial line is taken in a state where auto_watering_enabled is true.
C13_AutoSendsOnlyEnabled ==
    [][(sched.pc = "send_write" /\ sched'.sent = sched.sent + 1) =>
          system_state.auto_watering_enabled]_vars

\* a watering is in progress: "WET" has gone out and the wait of
\* WATERING_DURATION_SECONDS + 1 that follows it is not over
SchedWatering == sched.pc \in {"record", "pump"}
ManualWatering(c) == http[c].pc \in {"wm_record", "wm_pump"}

\* C14: no step writes "WET" to the serial line while a watering of the
\* decision loop or of a POST /water_manual request is in progress.
C14_NoSendWhileWatering ==
    [][((sched.pc = "send_write" /\ sched'.sent = sched.sent + 1)
        \/ \E c \in Clients : http[c].pc = "wm_write" /\ http'[c].pc = "wm_record")
          => (~SchedWatering /\ \A c \in Clients : ~ManualWatering(c))]_vars

\* the attempt failed (network error or non-2xx status); the answer came but
\* does not parse as the expected JSON
FailedAttempt(r) == r.kind = "RequestException"
ParseFailure(r) == r.kind \in {"not_json", "shape"}

\* C15: in a cycle of the weather poller with a real key at most max_retries
\* HTTP attempts are made; failed attempt number k is followed by a wait of
\* 2^k seconds; after a success no further attempt is made in the cycle; and
\* after an answer that does not parse as the expected JSON the cycle goes
\* to its long sleep with no further attempt and no backoff wait.
C15_RetryPolicy ==
    [][(weather' # weather) =>
          /\ weather'.attempts <= max_retries
          /\ (weather.pc = "request" /\ FailedAttempt(weather'.response)) =>
                weather'.pc = "backoff"
          /\ weather.pc = "backoff" =>
                /\ Len(weather'.delays) = weather.attempts
                /\ weather'.delays[weather.attempts] = Pow2(weather.attempts - 1)
          /\ (weather.pc = "request" /\ weather'.response.kind = "ok") =>
                weather'.pc = "set_desc"
          /\ weather.pc \in {"set_desc", "set_rain"} =>
                weather'.pc \notin {"request", "backoff"}
          /\ (weather.pc = "request" /\ ParseFailure(weather'.response)) =>
                weather'.pc = "sleep"]_vars

\* the two weather fields of the shared status record
WeatherFields(state) == <<state.weather_desc, state.weather_rain>>

\* C16: the steps of a poller cycle other than the two stores of a parsed
\* report (the key test, a failed or unparsable attempt, the backoff, the
\* sleep) leave weather_desc and weather_rain as they were; the stores are
\* only reached from a parsed report, and when the second is done both fields
\* hold that report's values; and from the sleep that ends a cycle, failed or
\* not, the poller always comes to the key test of a next cycle.
C16_FailedCycleKeepsWeather ==
    /\ [][(weather' # weather) =>
             /\ weather.pc \notin {"set_desc", "set_rain"} =>
                   WeatherFields(system_state') = WeatherFields(system_state)
             /\ (weather.pc = "request" /\ weather'.response.kind # "ok") =>
                   weather'.pc \in {"backoff", "sleep"}
             /\ weather.pc = "backoff" => weather'.pc \in {"request", "sleep"}
             /\ weather.pc = "set_desc" =>
                   /\ weather.response.kind = "ok"
                   /\ weather'.pc = "set_rain"
             /\ weather.pc = "set_rain" =>
                   /\ weather'.pc = "sleep"
                   /\ WeatherFields(system_state')
                         = <<Capitalize(weather.response.description),
                             is_raining(weather.response.id)>>]_vars
    /\ (weather.pc = "sleep") ~> (weather.pc = "check_key")

C16_Witness ==
    /\ weather.pc = "sleep" /\ weather.attempts = 1
    /\ weather.response # None /\ weather.response.kind = "shape"
    /\ WeatherFields(system_state) = <<"Light rain", TRUE>>

\* n / d rounded to the nearest integer, for n >= 0 and d > 0 (no quotient
\* 100 * k / range_span lies halfway between two integers)
RoundDiv(n, d) == (2 * n + d) \div (2 * d)

\* the percentage as the claim gives it
RoundedPercent(raw) ==
    Max(0, Min(100,
        100 - RoundDiv(100 * (clamped_value(raw) - WET_VALUE_MIN),
                       DRY_VALUE_MAX - WET_VALUE_MIN)))

\* C17: the moisture_percent stored for a parsed line is
\* 100 - round(100 * (clamp(raw, WET_MIN, DRY_MAX) - WET_MIN) / (DRY_MAX - WET_MIN)),
\* clamped to 0..100.
C17_PercentRounded ==
    [][(reader.pc = "store_moisture_percent" /\ reader'.pc = "poll") =>
          system_state'.moisture_percent
              = RoundedPercent(system_state'.moisture_raw)]_vars

\* C18: in every state a step leads to, arduino_connected implies that the
\* serial handle is present; and the step by which the Command Sender writes
\* the command and returns True is taken in a state where arduino_connected
\* is true.
C18_FlagAgreesWithHandle ==
    [][/\ system_state'.arduino_connected => ser' # None
       /\ \A c \in Clients :
             (http[c].pc = "wm_write" /\ http'[c].success = "True") =>
                 system_state.arduino_connected]_vars

\* the positions inside send_command_to_arduino, entered from the decision
\* loop and from POST /water_manual
SchedInSender == sched.pc \in {"send_call", "send_is_open", "send_write"}
ManualInSender(c) == http[c].pc \in {"wm_call", "wm_is_open", "wm_write"}

\* C19: no step of the Command Sender, called from the decision loop or from
\* POST /water_manual, changes the serial handle or a field of the shared
\* status record; and a step of it that finds the handle absent or not open
\* writes nothing to the serial line and returns False to the caller, the
\* call being the only one of the cycle or request.
C19_SenderFrame ==
    [][/\ (SchedInSender /\ sched' # sched) =>
             /\ ser' = ser /\ system_state' = system_state
             /\ (ser = None \/ ~ser.is_open) =>
                   /\ wire' = wire
                   /\ sched'.success = "False"
                   /\ sched'.pc = "sleep" /\ sched'.calls = 1
       /\ \A c \in Clients :
             (ManualInSender(c) /\ http'[c] # http[c]) =>
                 /\ ser' = ser /\ system_state' = system_state
                 /\ (ser = None \/ ~ser.is_open) =>
                       /\ wire' = wire
                       /\ http'[c].success = "False"
                       /\ http'[c].pc = "done"]_vars

\* the reader is in its scan loop (DISCONNECTED)
Disconnected ==
    reader.pc \in {"scan", "simulate", "sim_temp_c", "sim_humidity",
                   "sim_last_update", "retry_scan", "open", "retry_open"}

\* C20: while the reader is in its scan loop, a scan that finds no port goes
\* on to the simulated readings; their first store stores a moisture_raw of
\* 400..700, which is still there when the last store stores the current
\* time as last_update and goes to the retry wait; a failed open leaves no
\* handle; and each of these steps and the end of either retry wait leaves
\* arduino_connected false, the serial handle absent and the reader in the
\* scan loop, the retry ending at the scan.
C20_DisconnectedRetry ==
    [][(reader' # reader /\ Disconnected) =>
          /\ (reader.pc = "scan" /\ find_arduino_port(comports) = "None") =>
                reader'.pc = "simulate"
          /\ reader.pc = "simulate" =>
                system_state'.moisture_raw \in 400..700
          /\ reader.pc = "sim_last_update" =>
                /\ system_state'.moisture_raw \in 400..700
                /\ system_state'.last_update = strftime(now, FMT_UPDATE)
                /\ reader'.pc = "retry_scan"
          /\ reader.pc \in {"retry_scan", "retry_open"} => reader'.pc = "scan"
          /\ (reader.pc = "open" /\ ser' = None) => reader'.pc = "retry_open"
          /\ reader'.pc # "settle" =>
                /\ ser' = None
                /\ ~system_state'.arduino_connected
                /\ Disconnected']_vars

C20_Witness ==
    /\ reader.pc = "scan" /\ reader.e = "SerialException"
    /\ system_state.moisture_raw = 700
    /\ system_state.last_update = strftime(1, FMT_UPDATE)
    /\ ser = None /\ ~system_state.arduino_connected
====
